---- MODULE Spec2Model ----
(***************************************************************************)
(* A model of the ImageCanvas component (template/components/              *)
(* image-canvas.tsx): the particle field generated from an image, the      *)
(* pointer trail, the per-frame update and the resize / teardown           *)
(* lifecycle.                                                              *)
(*                                                                         *)
(* Numbers.  JavaScript numbers are modelled in fixed point:               *)
(*   - coordinates, sizes and velocities in units of 1/PX pixel,           *)
(*   - dimensionless factors (falloff, strength, noise, opacity, random    *)
(*     draws, configuration multipliers) in units of 1/FX,                 *)
(*   - angles in milliradians, times in milliseconds.                      *)
(* Comparisons of distances are made on the squares, so they are exact.    *)
(***************************************************************************)
EXTENDS Integers, Sequences, FiniteSets, TLC

\* ------------------------------------------------------------------ units

\* Coordinate units per pixel (DotData / TrailPoint fields of type number).
PX == 100
\* Units of a dimensionless factor (1.0 == FX).
FX == 1000

\* ----------------------------------------------------------------- bounds

\* Milliseconds of wall clock that pass after the first run of the effect:
\* in the pointer specification, and in the lifecycle specification.
MaxElapsed == 175
LifeElapsed == 75
\* Pointer-move events delivered over a run, in each specification.
MaxMoves == 3
LifeMoves == 1
\* Runs of the effect (the mount and re-runs on a change of props).
MaxMounts == 2
\* Resize notifications delivered over a run.
MaxResizes == 2

\* Date.now() at construction (any value far from lastMoveTimeRef's initial 0).
StartTime == 1000
\* The steps by which the clock advances between callbacks.
TickSet == {75, 100}
\* Pointer positions the events report, in pixels relative to the canvas.
PointSet == {<<0, 0>>, <<100, 0>>, <<103, 4>>}
\* The one of them the lifecycle specification delivers.
LifePointSet == {<<100, 0>>}
\* Container sizes, in pixels: the size at construction and the sizes resize
\* notifications report.
InitialSize == <<120, 40>>
SizeSet == {<<124, 44>>, <<125, 40>>, <<126, 40>>, <<0, 40>>}
\* Seeds of the Math.random stream.
SeedSet == {1, 2}
\* The seed of the pointer specification.
PointerSeed == 1

\* ------------------------------------------------------- program constants

\* handleMouseMove: one interpolated trail point per 10 pixels of motion.
StepPixels == 10
\* handleMouseMove: trail points of this age (ms) or more are filtered out.
TrailMaxAge == 150
\* animate: the pointer counts as moving for this long (ms) after a move.
IdleAfter == 100
\* resizeObserver: a change of more than this many pixels is significant.
ResizeThreshold == 5
\* Minimum cell size in pixels.
MinCell == 2
\* isAccent needs a brightness above this.
AccentBrightness == 150
\* handleMouseMove: the speed (pixels per event) of a full-strength trail point.
FullStrengthSpeed == 10

\* ------------------------------------------------------------------ props

\* The component's props (ImageCanvasProps).  Multipliers in units of 1/FX,
\* mouseRadius in pixels.
Props ==
  [halftoneSize |-> 1000, contrast |-> 1200, mouseRadius |-> 30,
   repulsionStrength |-> 1500, returnSpeed |-> 600,
   accentProbability |-> 200, sizeVariation |-> 100]

\* The decoded image: width, height and its pixels (row-major, <<R, G, B>>).
Image ==
  [width |-> 3, height |-> 1,
   data |-> << <<1, 1, 1>>, <<90, 120, 150>>, <<200, 200, 200>> >>]

\* window.devicePixelRatio || 1
Dpr == 1

\* ------------------------------------------------------------- arithmetic

Max(a, b) == IF a >= b THEN a ELSE b
Min(a, b) == IF a <= b THEN a ELSE b
Abs(a) == IF a >= 0 THEN a ELSE -a

\* a / b rounded toward zero (b > 0).
Trunc(a, b) == IF a >= 0 THEN a \div b ELSE -((-a) \div b)

RECURSIVE SqrtSearch(_, _, _)
SqrtSearch(n, lo, hi) ==
  IF lo >= hi THEN lo
  ELSE LET mid == (lo + hi + 1) \div 2
       IN IF mid * mid <= n THEN SqrtSearch(n, mid, hi)
                            ELSE SqrtSearch(n, lo, mid - 1)

\* Math.sqrt, rounded down to a whole unit.
Sqrt(n) == SqrtSearch(n, 0, 46340)

RECURSIVE CeilSearch(_, _, _)
CeilSearch(d2, unit, n) ==
  IF (unit * n) * (unit * n) >= d2 THEN n ELSE CeilSearch(d2, unit, n + 1)

\* Math.ceil(sqrt(d2) / unit), exactly: the least n with (unit * n)^2 >= d2.
CeilSqrtDiv(d2, unit) == CeilSearch(d2, unit, 0)

\* ------------------------------------------------------------------ state

VARIABLES
  now,               \* Date.now()
  container,         \* the container's layout box <<width, height>>, pixels
  canvas,            \* canvas.width, canvas.height (buffer size)
  lifecycle,         \* where the component is in its life
  effects,           \* how many times the effect has run
  active,            \* the effect run whose cleanup is pending (0: none)
  closures,          \* per effect run still reachable: its dots array and display size
  listening,         \* the canvas events handleMouse* are attached to
  observing,         \* the run whose ResizeObserver is observing (0: none)
  lastWidth,         \* the observer's lastWidth
  lastHeight,        \* the observer's lastHeight
  dotsRef,           \* dotsRef.current
  mouseRef,          \* mouseRef.current
  animationFrameRef, \* animationFrameRef.current (0: undefined)
  rafQueue,          \* frame requests not yet run or cancelled
  frameRan,          \* a frame callback ran at this value of the clock
  isHovering,
  isFirstMoveRef,
  lastMoveTimeRef,
  mouseTrailRef,
  limits,            \* the run's allowance: effect runs, milliseconds
  movesLeft,         \* pointer-move events still to be delivered
  resizesLeft,       \* resize notifications still to be delivered
  found,             \* what the last run of the effect found available
  events,            \* history: when the last mousemove, and the last
                     \* mousemove or mouseenter, fired
  frame,             \* what the frame callback that just ran read and drew
  calc,              \* the function applied last and its result (calculations)
  disk,              \* the working directory of the generator and of setup.sh
  generator,         \* the generator's main: where it is, what it read and made
  setup              \* setup.sh: how often it ran, its last exit status

vars ==
  <<now, container, canvas, lifecycle, effects, active, closures, listening,
    observing, lastWidth, lastHeight, dotsRef, mouseRef, animationFrameRef,
    rafQueue, frameRan, isHovering, isFirstMoveRef, lastMoveTimeRef,
    mouseTrailRef, limits, movesLeft, resizesLeft, found, events, frame,
    calc, disk, generator, setup>>

\* ------------------------------------------------------- particle generation

\* Math.random(): call number k of the stream with the given seed, in [0, FX).
Random(seed, k) == (seed * 397 + k * 613) % FX

\* TRUE when the cover-fit scale of image img on a W x H surface is the
\* horizontal one (scaleX >= scaleY).
ScaleIsXIn(img, W, H) == W * img.height >= H * img.width

ScaleIsX(W, H) == ScaleIsXIn(Image, W, H)

\* ctx.drawImage + ctx.getImageData: the <<R, G, B>> of buffer pixel (px, py)
\* of a W x H surface.  The image is scaled by max(scaleX, scaleY), centred,
\* and drawn without smoothing: a buffer pixel takes the image pixel under its
\* centre (the nearest edge pixel outside the image).
CanvasPixelIn(img, px, py, W, H) ==
  LET iw == img.width
      ih == img.height
      ix == IF ScaleIsXIn(img, W, H)
            THEN ((2 * px + 1) * iw) \div (2 * Dpr * W)
            ELSE ((2 * px + 1) * ih - Dpr * (W * ih - iw * H)) \div (2 * Dpr * H)
      iy == IF ScaleIsXIn(img, W, H)
            THEN ((2 * py + 1) * iw - Dpr * (H * iw - ih * W)) \div (2 * Dpr * W)
            ELSE ((2 * py + 1) * ih) \div (2 * Dpr * H)
      cx == Max(0, Min(iw - 1, ix))
      cy == Max(0, Min(ih - 1, iy))
  IN img.data[cy * iw + cx + 1]

CanvasPixel(px, py, W, H) == CanvasPixelIn(Image, px, py, W, H)

\* ((p / 255 - 0.5) * contrast + 0.5) * 255 as the fraction num / den.
ContrastRaw(p, contrast) ==
  [num |-> (2 * p - 255) * contrast + 255 * FX, den |-> 2 * FX]

\* ClampStore without the clamp: the value wraps modulo 256, as a store
\* into a Uint8Array would.
ClampStoreWrapping(raw) ==
  LET q == raw.num \div raw.den
      r == raw.num % raw.den
      n == IF 2 * r > raw.den THEN q + 1
           ELSE IF 2 * r < raw.den THEN q
           ELSE q + (q % 2)
  IN n % 256

\* Math.max(0, Math.min(255, raw)) stored into the Uint8ClampedArray
\* (rounded half to even).
ClampStore(raw) ==
  LET q == raw.num \div raw.den
      r == raw.num % raw.den
  IN IF raw.num <= 0 THEN 0
     ELSE IF raw.num >= 255 * raw.den THEN 255
     ELSE IF 2 * r > raw.den THEN q + 1
     ELSE IF 2 * r < raw.den THEN q
     ELSE q + (q % 2)

\* One channel through the contrast transform with the given multiplier.
ContrastChannelAt(p, contrast) == ClampStore(ContrastRaw(p, contrast))

ContrastChannel(p) == ContrastChannelAt(p, Props.contrast)

ApplyContrastAt(rgb, contrast) ==
  <<ContrastChannelAt(rgb[1], contrast), ContrastChannelAt(rgb[2], contrast),
    ContrastChannelAt(rgb[3], contrast)>>

ApplyContrast(rgb) == ApplyContrastAt(rgb, Props.contrast)

\* CellSize with the smaller of the two scales (the image contained in the
\* surface instead of covering it).
CellSizeContain(halftoneSize, iw, ih, W, H) ==
  LET scaled == IF W * ih <= H * iw
                THEN (halftoneSize * W * PX) \div (FX * iw)
                ELSE (halftoneSize * H * PX) \div (FX * ih)
  IN Max(MinCell * PX, scaled)

\* CellSizeRatio with a lower limit of 1 px.
CellSizeRatioFloorOne(num, den, iw, ih, W, H) ==
  LET scaled == IF W * ih >= H * iw
                THEN (num * W * PX) \div (den * iw)
                ELSE (num * H * PX) \div (den * ih)
  IN Max(PX, scaled)

\* Math.max(2, halftoneSize * scale), in coordinate units, for a halftoneSize
\* of num / den and an image of iw x ih pixels on a W x H surface.
CellSizeRatio(num, den, iw, ih, W, H) ==
  LET scaled == IF W * ih >= H * iw
                THEN (num * W * PX) \div (den * iw)
                ELSE (num * H * PX) \div (den * ih)
  IN Max(MinCell * PX, scaled)

\* Math.max(2, halftoneSize * scale) for a halftoneSize in units of 1/FX.
CellSize(halftoneSize, iw, ih, W, H) ==
  CellSizeRatio(halftoneSize, FX, iw, ih, W, H)

AdjustedHalftoneSize(W, H) ==
  CellSize(Props.halftoneSize, Image.width, Image.height, W, H)

\* The number of iterations of "for (v = 0; v < extent; v += cell)".
GridCount(extent, cell) == (extent * PX + cell - 1) \div cell

\* The buffer pixel sampled for the cell whose origin is (x, y).
SamplePoint(x, y) == <<(x * Dpr) \div PX, (y * Dpr) \div PX>>

\* The sum R + G + B of the buffer pixel sampled for the cell at (x, y).
SampleSumIn(img, contrast, x, y, W, H, contrasted) ==
  LET sample == SamplePoint(x, y)
      raw == CanvasPixelIn(img, sample[1], sample[2], W, H)
      rgb == IF contrasted THEN ApplyContrastAt(raw, contrast) ELSE raw
  IN rgb[1] + rgb[2] + rgb[3]

SampleSum(x, y, W, H, contrasted) ==
  SampleSumIn(Image, Props.contrast, x, y, W, H, contrasted)

\* DotRetained keeping a diameter of exactly 0.5 too.
DotRetainedFromHalf(sum, cell) == 2 * 9 * sum * cell >= 3 * 255 * 10 * PX

\* dotSize > 0.5, with dotSize = (sum / 3 / 255) * cell * 0.9.
DotRetained(sum, cell) == 2 * 9 * sum * cell > 3 * 255 * 10 * PX

\* NewDotIn letting a cell of brightness exactly 150 be an accent.
NewDotInAccentFrom150(config, x, y, sum, cell, seed, r, atMount) ==
  LET centerX == x + cell \div 2
      centerY == y + cell \div 2
      rSize == Random(seed, IF atMount THEN r ELSE r + 1)
      rAccent == Random(seed, IF atMount THEN r + 1 ELSE r)
  IN [x |-> centerX, y |-> centerY, baseX |-> centerX, baseY |-> centerY,
      baseSize |-> (9 * sum * cell) \div (3 * 255 * 10),
      brightness |-> (sum * PX) \div 3,
      isAccent |-> (rAccent < config.accentProbability
                     /\ sum >= 3 * AccentBrightness),
      sizeMultiplier |-> FX + Trunc((rSize - FX \div 2) * config.sizeVariation, FX),
      twinklePhase |-> (Random(seed, r + 2) * 6283) \div FX,
      twinkleSpeed |-> 20 + (Random(seed, r + 3) * 30) \div FX,
      vx |-> 0, vy |-> 0]

\* The particle of a retained cell; r is the number of Math.random calls
\* made before it.  The mount code draws sizeMultiplier before isAccent, the
\* resize code isAccent before sizeMultiplier.
NewDotIn(config, x, y, sum, cell, seed, r, atMount) ==
  LET centerX == x + cell \div 2
      centerY == y + cell \div 2
      rSize == Random(seed, IF atMount THEN r ELSE r + 1)
      rAccent == Random(seed, IF atMount THEN r + 1 ELSE r)
  IN [x |-> centerX, y |-> centerY, baseX |-> centerX, baseY |-> centerY,
      baseSize |-> (9 * sum * cell) \div (3 * 255 * 10),
      brightness |-> (sum * PX) \div 3,
      isAccent |-> (rAccent < config.accentProbability
                     /\ sum > 3 * AccentBrightness),
      sizeMultiplier |-> FX + Trunc((rSize - FX \div 2) * config.sizeVariation, FX),
      twinklePhase |-> (Random(seed, r + 2) * 6283) \div FX,
      twinkleSpeed |-> 20 + (Random(seed, r + 3) * 30) \div FX,
      vx |-> 0, vy |-> 0]

NewDot(x, y, sum, cell, seed, r, atMount) ==
  NewDotIn(Props, x, y, sum, cell, seed, r, atMount)

RECURSIVE GenerateFromIn(_, _, _, _, _, _, _, _, _)
\* The grid loops from cell number k on, over image img with the props
\* config.
GenerateFromIn(img, config, k, acc, W, H, contrasted, seed, atMount) ==
  LET cell == CellSize(config.halftoneSize, img.width, img.height, W, H)
      cols == GridCount(W, cell)
      rows == GridCount(H, cell)
      x == (k % cols) * cell
      y == (k \div cols) * cell
      sum == SampleSumIn(img, config.contrast, x, y, W, H, contrasted)
  IN IF k >= cols * rows THEN acc
     ELSE IF DotRetained(sum, cell)
     THEN GenerateFromIn(img, config, k + 1,
                         Append(acc, NewDotIn(config, x, y, sum, cell, seed,
                                              4 * Len(acc), atMount)),
                         W, H, contrasted, seed, atMount)
     ELSE GenerateFromIn(img, config, k + 1, acc, W, H, contrasted, seed, atMount)

GenerateFrom(k, acc, W, H, contrasted, seed, atMount) ==
  GenerateFromIn(Image, Props, k, acc, W, H, contrasted, seed, atMount)

\* The grid loops of the effect (atMount, over contrast-adjusted data) and of
\* the resize callback (over the data as drawn), for image img and props
\* config.
GenerateDotsIn(img, config, W, H, seed, atMount) ==
  GenerateFromIn(img, config, 0, <<>>, W, H, atMount, seed, atMount)

GenerateDots(W, H, seed, atMount) ==
  GenerateDotsIn(Image, Props, W, H, seed, atMount)

\* ------------------------------------------------------------ frame physics

\* smoothNoise(x, y, 0.02, time) of lib/noise: a deterministic value in [0, 1]
\* of the position and the time (here a triangle wave of their weighted sum).
SmoothNoise(x, y, t) ==
  LET v == ((x \div PX) * 20 + (y \div PX) * 20 + t) % (2 * FX)
  IN IF v <= FX THEN v ELSE 2 * FX - v

\* mouseRadius * (0.7 + noiseValue * 0.6), in coordinate units.
IrregularRadius(dot, t) ==
  (Props.mouseRadius * PX * (700 + (SmoothNoise(dot.baseX, dot.baseY, t) * 600) \div FX))
    \div FX

\* distanceFactor * distanceFactor * (3 - 2 * distanceFactor), with
\* distanceFactor = 1 - distance / irregularRadius.
SmoothFactor(d2, radius) ==
  LET distanceFactor == FX - (Sqrt(d2) * FX) \div radius
  IN (((distanceFactor * distanceFactor) \div FX) * (3 * FX - 2 * distanceFactor)) \div FX

\* Math.sin of an angle in milliradians, in units of 1/FX (Bhaskara's
\* approximation on each half period).
Sin(phase) ==
  LET x == phase % 6284
      h == x % 3142
      p == (h * (3142 - h)) \div 1000
      s == (16 * p * FX) \div (49361 - 4 * p)
  IN IF x < 3142 THEN s ELSE -s

\* TrailEffect normalising the direction at every distance but 0.
TrailEffectAnyDistance(dot, trailPoint, t) ==
  LET dx == trailPoint.x - dot.x
      dy == trailPoint.y - dot.y
      d2 == dx * dx + dy * dy
      reach == Props.mouseRadius * PX
      radius == IrregularRadius(dot, t)
      none == [falloff |-> 0, fx |-> 0, fy |-> 0, divided |-> FALSE]
  IN IF 4 * d2 > 9 * reach * reach THEN none
     ELSE IF d2 < radius * radius
     THEN LET smoothFactor == SmoothFactor(d2, radius)
              scaled == (Props.repulsionStrength * smoothFactor) \div FX
              force == (((scaled * trailPoint.strength) \div FX) * PX) \div (2 * FX)
          IN IF d2 > 0
             THEN [falloff |-> smoothFactor,
                   fx |-> Trunc(dx * force, Sqrt(d2)),
                   fy |-> Trunc(dy * force, Sqrt(d2)),
                   divided |-> TRUE]
             ELSE [falloff |-> smoothFactor, fx |-> 0, fy |-> 0, divided |-> FALSE]
     ELSE none

\* What one trail point adds for one dot: the falloff it contributes to
\* maxDistanceFactor and the force it subtracts from totalForceX/Y.
TrailEffect(dot, trailPoint, t) ==
  LET dx == trailPoint.x - dot.x
      dy == trailPoint.y - dot.y
      d2 == dx * dx + dy * dy
      reach == Props.mouseRadius * PX
      radius == IrregularRadius(dot, t)
      none == [falloff |-> 0, fx |-> 0, fy |-> 0, divided |-> FALSE]
  IN IF 4 * d2 > 9 * reach * reach THEN none
     ELSE IF d2 < radius * radius
     THEN LET smoothFactor == SmoothFactor(d2, radius)
              scaled == (Props.repulsionStrength * smoothFactor) \div FX
              force == (((scaled * trailPoint.strength) \div FX) * PX) \div (2 * FX)
          IN IF d2 > (PX \div 10) * (PX \div 10)
             THEN [falloff |-> smoothFactor,
                   fx |-> Trunc(dx * force, Sqrt(d2)),
                   fy |-> Trunc(dy * force, Sqrt(d2)),
                   divided |-> TRUE]
             ELSE [falloff |-> smoothFactor, fx |-> 0, fy |-> 0, divided |-> FALSE]
     ELSE none

RECURSIVE TrailSum(_, _, _, _)
\* mouseTrailRef.current.forEach over the points from index i on.
TrailSum(dot, trail, t, i) ==
  IF i > Len(trail) THEN [falloff |-> 0, fx |-> 0, fy |-> 0]
  ELSE LET e == TrailEffect(dot, trail[i], t)
           rest == TrailSum(dot, trail, t, i + 1)
       IN [falloff |-> Max(e.falloff, rest.falloff),
           fx |-> rest.fx - e.fx, fy |-> rest.fy - e.fy]

\* PointerFalloff without its radius test: the pointer reaches every dot.
PointerFalloffAnywhere(dot, mouse, t) ==
  IF mouse.x > 0
  THEN LET dx == mouse.x - dot.x
           dy == mouse.y - dot.y
       IN SmoothFactor(dx * dx + dy * dy, IrregularRadius(dot, t))
  ELSE 0

\* The falloff of the live pointer position for a dot (0 when the pointer is
\* not at x > 0 or not within the dot's irregular radius).
PointerFalloff(dot, mouse, t) ==
  IF mouse.x > 0
  THEN LET dx == mouse.x - dot.x
           dy == mouse.y - dot.y
           d2 == dx * dx + dy * dy
           radius == IrregularRadius(dot, t)
       IN IF d2 < radius * radius THEN SmoothFactor(d2, radius) ELSE 0
  ELSE 0

\* UpdateDot with a twinkle amount of twinkle * maxDistanceFactor, without
\* its lower part of 0.3.
UpdateDotDarkTwinkle(dot, trail, mouse, t) ==
  LET acc == TrailSum(dot, trail, t, 1)
      maxDistanceFactor == Max(acc.falloff, PointerFalloff(dot, mouse, t))
      vx1 == dot.vx + acc.fx + Trunc((dot.baseX - dot.x) * Props.returnSpeed, 10 * FX)
      vy1 == dot.vy + acc.fy + Trunc((dot.baseY - dot.y) * Props.returnSpeed, 10 * FX)
      vx2 == Trunc(vx1 * 85, 100)
      vy2 == Trunc(vy1 * 85, 100)
      phase == IF maxDistanceFactor > 0 THEN dot.twinklePhase + dot.twinkleSpeed
                                        ELSE dot.twinklePhase
      twinkle == (Sin(phase) + FX) \div 2
      twinkleAmount == (twinkle * maxDistanceFactor) \div FX
      opacity == IF maxDistanceFactor > 0
                 THEN FX - ((FX - twinkleAmount) * maxDistanceFactor) \div FX
                 ELSE FX
  IN [dot |-> [dot EXCEPT !.vx = vx2, !.vy = vy2, !.x = dot.x + vx2, !.y = dot.y + vy2,
                          !.twinklePhase = phase],
      drawn |-> [x |-> dot.x + vx2, y |-> dot.y + vy2,
                 size |-> (dot.baseSize * dot.sizeMultiplier) \div FX,
                 opacity |-> opacity, isAccent |-> dot.isAccent,
                 maxDistanceFactor |-> maxDistanceFactor,
                 forceX |-> acc.fx, forceY |-> acc.fy]]

\* UpdateDot advancing the twinkle phase of every dot, lit or not.
UpdateDotAlwaysTwinkling(dot, trail, mouse, t) ==
  LET acc == TrailSum(dot, trail, t, 1)
      maxDistanceFactor == Max(acc.falloff, PointerFalloff(dot, mouse, t))
      vx1 == dot.vx + acc.fx + Trunc((dot.baseX - dot.x) * Props.returnSpeed, 10 * FX)
      vy1 == dot.vy + acc.fy + Trunc((dot.baseY - dot.y) * Props.returnSpeed, 10 * FX)
      vx2 == Trunc(vx1 * 85, 100)
      vy2 == Trunc(vy1 * 85, 100)
      phase == dot.twinklePhase + dot.twinkleSpeed
      twinkle == (Sin(phase) + FX) \div 2
      twinkleAmount == ((300 + (twinkle * 700) \div FX) * maxDistanceFactor) \div FX
      opacity == IF maxDistanceFactor > 0
                 THEN FX - ((FX - twinkleAmount) * maxDistanceFactor) \div FX
                 ELSE FX
  IN [dot |-> [dot EXCEPT !.vx = vx2, !.vy = vy2, !.x = dot.x + vx2, !.y = dot.y + vy2,
                          !.twinklePhase = phase],
      drawn |-> [x |-> dot.x + vx2, y |-> dot.y + vy2,
                 size |-> (dot.baseSize * dot.sizeMultiplier) \div FX,
                 opacity |-> opacity, isAccent |-> dot.isAccent,
                 maxDistanceFactor |-> maxDistanceFactor,
                 forceX |-> acc.fx, forceY |-> acc.fy]]

\* The body of dots.forEach for one dot: the dot as updated and how it is drawn.
UpdateDot(dot, trail, mouse, t) ==
  LET acc == TrailSum(dot, trail, t, 1)
      maxDistanceFactor == Max(acc.falloff, PointerFalloff(dot, mouse, t))
      vx1 == dot.vx + acc.fx + Trunc((dot.baseX - dot.x) * Props.returnSpeed, 10 * FX)
      vy1 == dot.vy + acc.fy + Trunc((dot.baseY - dot.y) * Props.returnSpeed, 10 * FX)
      vx2 == Trunc(vx1 * 85, 100)
      vy2 == Trunc(vy1 * 85, 100)
      phase == IF maxDistanceFactor > 0 THEN dot.twinklePhase + dot.twinkleSpeed
                                        ELSE dot.twinklePhase
      twinkle == (Sin(phase) + FX) \div 2
      twinkleAmount == ((300 + (twinkle * 700) \div FX) * maxDistanceFactor) \div FX
      opacity == IF maxDistanceFactor > 0
                 THEN FX - ((FX - twinkleAmount) * maxDistanceFactor) \div FX
                 ELSE FX
  IN [dot |-> [dot EXCEPT !.vx = vx2, !.vy = vy2, !.x = dot.x + vx2, !.y = dot.y + vy2,
                          !.twinklePhase = phase],
      drawn |-> [x |-> dot.x + vx2, y |-> dot.y + vy2,
                 size |-> (dot.baseSize * dot.sizeMultiplier) \div FX,
                 opacity |-> opacity, isAccent |-> dot.isAccent,
                 maxDistanceFactor |-> maxDistanceFactor,
                 forceX |-> acc.fx, forceY |-> acc.fy]]

\* FrameTrail of a frame that sees none of the points the events appended.
FrameTrailNone(trail, lastMove, t) == <<>>

\* FrameTrail keeping the trail through the 100th millisecond.
FrameTrailLate(trail, lastMove, t) ==
  IF t - lastMove <= IdleAfter THEN trail ELSE <<>>

\* The trail the frame accumulates forces from: emptied when the last move
\* is not less than 100 ms old.
FrameTrail(trail, lastMove, t) ==
  IF t - lastMove < IdleAfter THEN trail ELSE <<>>

\* --------------------------------------------------------- pointer handlers

\* Steps without its lower limit of one point.
StepsCeil(d2) == CeilSqrtDiv(d2, StepPixels * PX)

\* Steps at the earlier spacing of one point per 5 pixels.
StepsFive(d2) == Max(1, CeilSqrtDiv(d2, (StepPixels \div 2) * PX))

\* Math.max(1, Math.ceil(distance / 10)) for a displacement of squared
\* length d2.
Steps(d2) == Max(1, CeilSqrtDiv(d2, StepPixels * PX))

\* Math.min(speed / 10, 1) for a displacement of squared length d2.
Strength(d2) == Min((Sqrt(d2) * FX) \div (FullStrengthSpeed * PX), FX)

\* The points the loop of handleMouseMove pushes for a move from
\* (prevX, prevY) to (newX, newY) at time t.
PushedPoints(prevX, prevY, newX, newY, t) ==
  LET velX == newX - prevX
      velY == newY - prevY
      d2 == velX * velX + velY * velY
      steps == Steps(d2)
  IN [i \in 1..steps |->
        [x |-> prevX + Trunc(velX * (i - 1), steps),
         y |-> prevY + Trunc(velY * (i - 1), steps),
         timestamp |-> t,
         strength |-> Strength(d2)]]

\* FilterTrail keeping an entry of age exactly 150 ms too.
FilterTrailInclusive(trail, t) ==
  SelectSeq(trail, LAMBDA point : t - point.timestamp <= TrailMaxAge)

\* mouseTrailRef.current.filter((point) => now - point.timestamp < 150)
FilterTrail(trail, t) ==
  SelectSeq(trail, LAMBDA point : t - point.timestamp < TrailMaxAge)

\* No function was applied in this step.
NoCalc == [apply |-> "none"]

\* A working directory as cloned: resume.example.yaml and the template, no
\* resume.yaml, nothing generated.  A file is its content, "absent" when
\* there is none.
ClonedDisk ==
  [resume |-> "absent", example |-> "complete", template |-> TRUE,
   components |-> "absent", appDir |-> FALSE,
   page |-> "absent", layout |-> "absent", css |-> "absent"]

\* What the generator may create or write: the app directory and its files.
Generated(d) ==
  [appDir |-> d.appDir, page |-> d.page, layout |-> d.layout, css |-> d.css]

\* The generator before "node generate.js" is run (before: the app
\* directory as the current run found it).
NotRunning ==
  [pc |-> "idle", runs |-> 0, status |-> 0, cause |-> "none", resume |-> "none",
   contents |-> [page |-> "none", layout |-> "none", css |-> "none"],
   before |-> Generated(ClonedDisk)]

\* setup.sh before its first run.
NotSetUp == [runs |-> 0, status |-> 0]

\* A pointer that never entered the canvas (mouseRef's initial value).
NoPointer ==
  [x |-> -1000 * PX, y |-> -1000 * PX, prevX |-> -1000 * PX, prevY |-> -1000 * PX]

\* No frame callback ran in this step.
NoFrame ==
  [run |-> 0, width |-> 0, height |-> 0, trail |-> <<>>, mouse |-> NoPointer,
   drawn |-> <<>>]

\* handleMouseMove, for an event at canvas position p (pixels).
MouseMove(p) ==
  /\ "mousemove" \in listening
  /\ movesLeft > 0
  /\ movesLeft' = movesLeft - 1
  /\ lastMoveTimeRef' = now
  /\ isFirstMoveRef' = FALSE
  /\ LET newX == p[1] * PX
         newY == p[2] * PX
     IN IF isFirstMoveRef
        THEN /\ mouseRef' = [x |-> newX, y |-> newY, prevX |-> newX, prevY |-> newY]
             /\ mouseTrailRef' = mouseTrailRef
        ELSE /\ mouseRef' = [x |-> newX, y |-> newY,
                             prevX |-> mouseRef.x, prevY |-> mouseRef.y]
             /\ mouseTrailRef' =
                  FilterTrail(mouseTrailRef
                                \o PushedPoints(mouseRef.x, mouseRef.y, newX, newY, now),
                              now)
  /\ events' = [move |-> now, latest |-> now]
  /\ frame' = NoFrame
  /\ UNCHANGED <<now, container, canvas, lifecycle, effects, active, closures,
                 listening, observing, lastWidth, lastHeight, dotsRef,
                 animationFrameRef, rafQueue, frameRan, isHovering, limits,
                 resizesLeft,
                 found,
                 calc, disk, generator, setup>>

\* handleMouseEnter
MouseEnter ==
  /\ "mouseenter" \in listening
  /\ isHovering' = TRUE
  /\ lastMoveTimeRef' = now
  /\ events' = [events EXCEPT !.latest = now]
  /\ frame' = NoFrame
  /\ UNCHANGED <<now, container, canvas, lifecycle, effects, active, closures,
                 listening, observing, lastWidth, lastHeight, dotsRef, mouseRef,
                 animationFrameRef, rafQueue, frameRan, isFirstMoveRef,
                 mouseTrailRef, limits, movesLeft, resizesLeft,
                 found,
                 calc, disk, generator, setup>>

\* A handleMouseLeave that also empties the trail.
MouseLeaveClearingTrail ==
  /\ "mouseleave" \in listening
  /\ isHovering' = FALSE
  /\ mouseTrailRef' = <<>>
  /\ frame' = NoFrame
  /\ UNCHANGED <<now, container, canvas, lifecycle, effects, active, closures,
                 listening, observing, lastWidth, lastHeight, dotsRef, mouseRef,
                 animationFrameRef, rafQueue, frameRan, isFirstMoveRef,
                 lastMoveTimeRef, limits, movesLeft, resizesLeft,
                 found, events,
                 calc, disk, generator, setup>>

\* handleMouseLeave
MouseLeave ==
  /\ "mouseleave" \in listening
  /\ isHovering' = FALSE
  /\ frame' = NoFrame
  /\ UNCHANGED <<now, container, canvas, lifecycle, effects, active, closures,
                 listening, observing, lastWidth, lastHeight, dotsRef, mouseRef,
                 animationFrameRef, rafQueue, frameRan, isFirstMoveRef,
                 lastMoveTimeRef, mouseTrailRef, limits, movesLeft, resizesLeft,
                 found, events,
                 calc, disk, generator, setup>>

\* The clock advances between callbacks (it is read from the first run of
\* the effect on, and stands still between a cleanup and the re-run).
Tick(d) ==
  /\ lifecycle \in {"running", "idle", "unmounted", "failed"}
  /\ now + d <= StartTime + limits.ms
  /\ now' = now + d
  /\ frameRan' = FALSE
  /\ frame' = NoFrame
  /\ UNCHANGED <<container, canvas, lifecycle, effects, active, closures,
                 listening, observing, lastWidth, lastHeight, dotsRef, mouseRef,
                 animationFrameRef, rafQueue, isHovering, isFirstMoveRef,
                 lastMoveTimeRef, mouseTrailRef, limits, movesLeft, resizesLeft,
                 found, events,
                 calc, disk, generator, setup>>

\* ---------------------------------------------------- frame loop, lifecycle

\* dots.forEach of animate over the dots array of one effect run.
AnimateDots(dots, trail, mouse, t) ==
  [i \in 1..Len(dots) |-> UpdateDot(dots[i], trail, mouse, t)]

\* What a frame callback of effect run g read and drew.
FrameRecord(g, W, H, trail, mouse, updated) ==
  [run |-> g, width |-> W, height |-> H, trail |-> trail, mouse |-> mouse,
   drawn |-> [i \in 1..Len(updated) |-> updated[i].drawn]]

\* The handle requestAnimationFrame returns: a positive number no pending
\* request has (the least such).
NewRequestId(queue) ==
  CHOOSE id \in 1..(Cardinality(queue) + 1) :
    /\ \A r \in queue : r.id # id
    /\ \A smaller \in 1..(id - 1) : \E r \in queue : r.id = smaller

\* A requestAnimationFrame that schedules nothing.
RequestDropped(queue, g) == queue

\* requestAnimationFrame(animate) by effect run g.
Request(queue, g) == queue \cup {[id |-> NewRequestId(queue), run |-> g]}

\* A cancelAnimationFrame called with an id that is not the pending
\* request's.
CancelFrameStale(queue, id) ==
  IF id # 0 THEN {r \in queue : r.id # id + 1} ELSE queue

\* A cancelAnimationFrame that leaves the request pending.
CancelFrameNever(queue, id) == queue

\* cancelAnimationFrame(animationFrameRef.current), when the ref is set.
CancelFrame(queue, id) ==
  IF id # 0 THEN {r \in queue : r.id # id} ELSE queue

\* The guards of the effect without the one on the image.
MountReadyNoImage(avail) ==
  avail.canvas /\ avail.ctx /\ avail.container

\* The guards of the effect: canvasRef.current, image, the 2D context and the
\* canvas's parent must all be there.
MountReady(avail) ==
  avail.canvas /\ avail.image /\ avail.ctx /\ avail.container

AllThere == [canvas |-> TRUE, image |-> TRUE, ctx |-> TRUE, container |-> TRUE]

\* What a run of the effect may find: everything, or one of the four missing.
AvailSet ==
  {AllThere, [AllThere EXCEPT !.canvas = FALSE], [AllThere EXCEPT !.image = FALSE],
   [AllThere EXCEPT !.ctx = FALSE], [AllThere EXCEPT !.container = FALSE]}

AllEvents == {"mousemove", "mouseenter", "mouseleave"}

\* The effect runs (at mount, or again after its cleanup when a prop changed).
Mount(avail, seed) ==
  /\ lifecycle \in {"constructed", "idle", "rerun"}
  /\ active = 0
  /\ effects < limits.effects
  /\ effects' = effects + 1
  /\ found' = avail
  /\ LET g == effects + 1
         W == container[1]
         H == container[2]
     IN IF ~MountReady(avail)
        THEN /\ lifecycle' = "idle"
             /\ frame' = NoFrame
             /\ UNCHANGED <<canvas, active, closures, listening, observing,
                            lastWidth, lastHeight, dotsRef, animationFrameRef,
                            rafQueue, frameRan, mouseTrailRef>>
        ELSE IF W = 0 \/ H = 0
        THEN \* getImageData of an empty rectangle throws an IndexSizeError:
             \* the effect ends there, the error uncaught
             /\ canvas' = <<W * Dpr, H * Dpr>>
             /\ lifecycle' = "failed"
             /\ frame' = NoFrame
             /\ UNCHANGED <<active, closures, listening, observing, lastWidth,
                            lastHeight, dotsRef, animationFrameRef, rafQueue,
                            frameRan, mouseTrailRef>>
        ELSE LET dots == GenerateDots(W, H, seed, TRUE)
                 trail == FrameTrail(mouseTrailRef, lastMoveTimeRef, now)
                 updated == AnimateDots(dots, trail, mouseRef, now)
             IN /\ canvas' = <<W * Dpr, H * Dpr>>
                /\ closures' = closures @@
                     (g :> [dots |-> [i \in 1..Len(dots) |-> updated[i].dot],
                            displayWidth |-> W, displayHeight |-> H])
                /\ dotsRef' = [alias |-> g, arr |-> <<>>]
                /\ mouseTrailRef' = trail
                /\ frame' = FrameRecord(g, W, H, trail, mouseRef, updated)
                /\ rafQueue' = Request(rafQueue, g)
                /\ animationFrameRef' = NewRequestId(rafQueue)
                /\ frameRan' = TRUE
                /\ listening' = AllEvents
                /\ observing' = g
                /\ active' = g
                /\ lifecycle' = "running"
                /\ lastWidth' = W
                /\ lastHeight' = H
  /\ UNCHANGED <<now, container, mouseRef, isHovering, isFirstMoveRef,
                 lastMoveTimeRef, limits, movesLeft, resizesLeft,
                 events,
                 calc, disk, generator, setup>>

\* A frame callback: animate, as requested by req.
Frame(req) ==
  /\ req \in rafQueue
  /\ ~frameRan
  /\ LET g == req.run
         c == closures[g]
         trail == FrameTrail(mouseTrailRef, lastMoveTimeRef, now)
         updated == AnimateDots(c.dots, trail, mouseRef, now)
     IN /\ closures' = [closures EXCEPT
                          ![g].dots = [i \in 1..Len(c.dots) |-> updated[i].dot]]
        /\ mouseTrailRef' = trail
        /\ frame' = FrameRecord(g, c.displayWidth, c.displayHeight, trail, mouseRef,
                              updated)
        /\ rafQueue' = Request(rafQueue \ {req}, g)
  /\ animationFrameRef' = NewRequestId(rafQueue \ {req})
  /\ frameRan' = TRUE
  /\ UNCHANGED <<now, container, canvas, lifecycle, effects, active, listening,
                 observing, lastWidth, lastHeight, dotsRef, mouseRef, isHovering,
                 isFirstMoveRef, lastMoveTimeRef, limits, movesLeft, resizesLeft,
                 found, events,
                 calc, disk, generator, setup>>

\* dotsRef.current: the dots array of an effect run, or an array of its own.
DotsRefCurrent ==
  IF dotsRef.alias # 0 THEN closures[dotsRef.alias].dots ELSE dotsRef.arr

\* The observer's test measured against the size of the previous
\* notification instead of the last accepted size.
ResizeSignificantSincePrevious(newWidth, newHeight, lastW, lastH) ==
  /\ newWidth > 0
  /\ newHeight > 0
  /\ (Abs(newWidth - container[1]) > ResizeThreshold
        \/ Abs(newHeight - container[2]) > ResizeThreshold)

\* The observer's test with a threshold one pixel higher.
ResizeSignificantHigher(newWidth, newHeight, lastW, lastH) ==
  /\ newWidth > 0
  /\ newHeight > 0
  /\ (Abs(newWidth - lastW) > ResizeThreshold + 1
        \/ Abs(newHeight - lastH) > ResizeThreshold + 1)

\* The observer's test with a threshold two pixels lower.
ResizeSignificantLower(newWidth, newHeight, lastW, lastH) ==
  /\ newWidth > 0
  /\ newHeight > 0
  /\ (Abs(newWidth - lastW) > ResizeThreshold - 2
        \/ Abs(newHeight - lastH) > ResizeThreshold - 2)

\* The observer's test of a notification of size (newWidth, newHeight).
ResizeSignificant(newWidth, newHeight, lastW, lastH) ==
  /\ newWidth > 0
  /\ newHeight > 0
  /\ (Abs(newWidth - lastW) > ResizeThreshold \/ Abs(newHeight - lastH) > ResizeThreshold)

\* The container takes a new size; the resizeObserver callback runs if an
\* observer is connected.
Resize(size, seed) ==
  /\ lifecycle \in {"running", "idle", "unmounted", "failed"}
  /\ resizesLeft > 0
  /\ resizesLeft' = resizesLeft - 1
  /\ container' = size
  /\ IF observing # 0 /\ ResizeSignificant(size[1], size[2], lastWidth, lastHeight)
     THEN /\ lastWidth' = size[1]
          /\ lastHeight' = size[2]
          /\ canvas' = <<size[1] * Dpr, size[2] * Dpr>>
          /\ dotsRef' = [alias |-> 0, arr |-> GenerateDots(size[1], size[2], seed, FALSE)]
     ELSE UNCHANGED <<lastWidth, lastHeight, canvas, dotsRef>>
  /\ frame' = NoFrame
  /\ UNCHANGED <<now, lifecycle, effects, active, closures, listening, observing,
                 mouseRef, animationFrameRef, rafQueue, frameRan, isHovering,
                 isFirstMoveRef, lastMoveTimeRef, mouseTrailRef, limits, movesLeft,
                 found, events,
                 calc, disk, generator, setup>>

\* canvas.removeEventListener for the three handlers.
Detach(attached) == attached \ AllEvents

\* resizeObserver.disconnect()
Disconnect(run) == 0

\* The effect's cleanup: at unmount, or (again) when a prop changed and the
\* effect is about to run again.  The dots array of a run no pending frame
\* refers to is unreachable but through dotsRef.
Cleanup(again) ==
  /\ active # 0
  /\ active' = 0
  /\ lifecycle' = IF again THEN "rerun" ELSE "unmounted"
  /\ rafQueue' = CancelFrame(rafQueue, animationFrameRef)
  /\ listening' = Detach(listening)
  /\ observing' = Disconnect(observing)
  /\ LET live == {r.run : r \in rafQueue'}
     IN /\ closures' = [g \in DOMAIN closures \cap live |-> closures[g]]
        /\ dotsRef' = IF dotsRef.alias # 0 /\ dotsRef.alias \notin live
                      THEN [alias |-> 0, arr |-> closures[dotsRef.alias].dots]
                      ELSE dotsRef
  /\ frame' = NoFrame
  /\ UNCHANGED <<now, container, canvas, effects, lastWidth, lastHeight, mouseRef,
                 animationFrameRef, frameRan, isHovering, isFirstMoveRef,
                 lastMoveTimeRef, mouseTrailRef, limits, movesLeft, resizesLeft,
                 found, events,
                 calc, disk, generator, setup>>

\* ----------------------------------------------------------- specifications

\* The state after construction (the refs' initial values), before the
\* effect has run.
Constructed ==
  /\ lifecycle = "constructed"
  /\ now = StartTime
  /\ container = InitialSize
  /\ canvas = <<300, 150>>
  /\ effects = 0
  /\ active = 0
  /\ closures = <<>>
  /\ listening = {}
  /\ observing = 0
  /\ lastWidth = 0
  /\ lastHeight = 0
  /\ dotsRef = [alias |-> 0, arr |-> <<>>]
  /\ mouseRef = NoPointer
  /\ animationFrameRef = 0
  /\ rafQueue = {}
  /\ frameRan = FALSE
  /\ isHovering = FALSE
  /\ isFirstMoveRef = TRUE
  /\ lastMoveTimeRef = 0
  /\ mouseTrailRef = <<>>
  /\ found = AllThere
  /\ events = [move |-> 0, latest |-> 0]
  /\ frame = NoFrame
  /\ calc = NoCalc

\* Neither the generator nor setup.sh runs: the working directory stays as
\* cloned.
ToolsUnused ==
  /\ disk = ClonedDisk
  /\ generator = NotRunning
  /\ setup = NotSetUp

\* The lifecycle specification: every callback, a short pointer history.
Init ==
  /\ Constructed
  /\ ToolsUnused
  /\ limits = [effects |-> MaxMounts, ms |-> LifeElapsed]
  /\ movesLeft = LifeMoves
  /\ resizesLeft = MaxResizes

Next ==
  \/ \E avail \in AvailSet, seed \in SeedSet : Mount(avail, seed)
  \/ \E req \in rafQueue : Frame(req)
  \/ \E p \in LifePointSet : MouseMove(p)
  \/ MouseEnter
  \/ MouseLeave
  \/ \E size \in SizeSet, seed \in SeedSet : Resize(size, seed)
  \/ \E again \in BOOLEAN : Cleanup(again)
  \/ \E d \in TickSet : Tick(d)

Spec == Init /\ [][Next]_vars

\* The browser runs a pending animation frame callback at the next repaint.
\* With a request pending, the steps that set frameRan are those of Frame
\* (the effect sets it only after its cleanup left no request pending).
FrameCallbackRuns == rafQueue # {} /\ ~frameRan /\ frameRan' = TRUE

\* The lifecycle specification with the browser's scheduling: a requested
\* animation frame callback that stays pending is eventually run.
SpecLive == Spec /\ WF_frameRan(FrameCallbackRuns)

\* The pointer specification: one run of the effect, the pointer handlers
\* and the frame loop over a longer time.
InitPointer ==
  /\ Constructed
  /\ ToolsUnused
  /\ limits = [effects |-> 1, ms |-> MaxElapsed]
  /\ movesLeft = MaxMoves
  /\ resizesLeft = 0

NextPointer ==
  \/ \E avail \in AvailSet : Mount(avail, PointerSeed)
  \/ \E req \in rafQueue : Frame(req)
  \/ \E p \in PointSet : MouseMove(p)
  \/ MouseEnter
  \/ MouseLeave
  \/ \E d \in TickSet : Tick(d)

SpecPointer == InitPointer /\ [][NextPointer]_vars

\* ----------------------------------------------------------- calculations

\* The component's variables (all but calc).
componentVars ==
  <<now, container, canvas, lifecycle, effects, active, closures, listening,
    observing, lastWidth, lastHeight, dotsRef, mouseRef, animationFrameRef,
    rafQueue, frameRan, isHovering, isFirstMoveRef, lastMoveTimeRef,
    mouseTrailRef, limits, movesLeft, resizesLeft, found, events, frame>>

\* Contrast multipliers (units of 1/FX) and channel values tried.
ContrastSet == {1, 500, 1000, 1200, 3000, 100000}
ChannelSet == 0..255

\* Offsets (coordinate units, 1/PX pixel) of a trail point from a dot, the
\* times (ms) and the strengths tried.
OffsetSet == {0, 5, 7, 10, 11, 300, 2500}
TimeSet == {0, 400, 1000}
StrengthSet == {500, 1000}

\* A dot resting at (50, 20) px, displaced by (shiftX, 0) from there.
ProbeDot(shiftX) ==
  [x |-> 50 * PX + shiftX, y |-> 20 * PX, baseX |-> 50 * PX, baseY |-> 20 * PX,
   baseSize |-> 10 * PX, brightness |-> 200 * PX, isAccent |-> FALSE,
   sizeMultiplier |-> FX, twinklePhase |-> 0, twinkleSpeed |-> 20,
   vx |-> 0, vy |-> 0]

\* One dot through the body of dots.forEach with a trail of one point, at
\* offset (dx, dy) from the dot.
CalcTrail(shiftX, dx, dy, strength, t) ==
  /\ calc = NoCalc
  /\ LET dot == ProbeDot(shiftX)
         point == [x |-> dot.x + dx, y |-> dot.y + dy, timestamp |-> t,
                   strength |-> strength]
     IN calc' = [apply |-> "trail", dot |-> dot, point |-> point, time |-> t,
                 effect |-> TrailEffect(dot, point, t),
                 updated |-> UpdateDot(dot, <<point>>, NoPointer, t)]
  /\ UNCHANGED <<componentVars, disk, generator, setup>>

\* One channel value through the contrast transform.
CalcContrast(contrast, p) ==
  /\ calc = NoCalc
  /\ calc' = [apply |-> "contrast", contrast |-> contrast, p |-> p,
              out |-> ContrastChannelAt(p, contrast)]
  /\ UNCHANGED <<componentVars, disk, generator, setup>>

\* A 4 x 1 image whose first pixel gives, in a 5 px cell, a diameter of
\* exactly 0.5 (R + G + B = 85) and whose second one of just above it.
EdgeImage ==
  [width |-> 4, height |-> 1,
   data |-> << <<28, 28, 29>>, <<28, 29, 29>>, <<0, 0, 0>>, <<255, 255, 255>> >>]

\* The scenes generation is applied to: an image, the props and the surface.
\* Contrast 1.0 leaves the pixels as drawn.
SceneSet ==
  {[image |-> EdgeImage, W |-> 20, H |-> 5,
    config |-> [Props EXCEPT !.halftoneSize = 1000, !.contrast = 1000]],
   [image |-> EdgeImage, W |-> 40, H |-> 10,
    config |-> [Props EXCEPT !.halftoneSize = 2000, !.contrast = 1000]],
   [image |-> EdgeImage, W |-> 40, H |-> 10,
    config |-> [Props EXCEPT !.halftoneSize = 500, !.contrast = 1000]],
   [image |-> EdgeImage, W |-> 40, H |-> 10,
    config |-> [Props EXCEPT !.halftoneSize = 1500, !.contrast = 1000]],
   [image |-> Image, W |-> 120, H |-> 40, config |-> Props]}

\* The grid loops of the effect (atMount) or of the resize callback over a
\* scene.
CalcGenerate(scene, seed, atMount) ==
  /\ calc = NoCalc
  /\ calc' = [apply |-> "generate", scene |-> scene, atMount |-> atMount,
              dots |-> GenerateDotsIn(scene.image, scene.config, scene.W, scene.H,
                                      seed, atMount)]
  /\ UNCHANGED <<componentVars, disk, generator, setup>>

\* Twinkle phases (milliradians) a dot enters the frame with: after the
\* step of 20 they are at 20, at the maximum and the minimum of the sine, at
\* its zero and in the last quarter.  PointerOffsetSet: the pointer is
\* absent (-1), on the dot, or 10 px from it.
PhaseSet == {0, 1551, 3122, 4692, 6000}
PointerOffsetSet == {-1, 0, 1000}

\* One dot through the body of dots.forEach with a trail of one point at
\* offset (dx, dy) and the pointer at offset (pointerDx, 0) from the dot.
CalcOpacity(phase, dx, dy, pointerDx, t) ==
  /\ calc = NoCalc
  /\ LET dot == [ProbeDot(0) EXCEPT !.twinklePhase = phase]
         point == [x |-> dot.x + dx, y |-> dot.y + dy, timestamp |-> 0,
                   strength |-> FX]
         mouse == IF pointerDx < 0 THEN NoPointer
                  ELSE [x |-> dot.x + pointerDx, y |-> dot.y,
                        prevX |-> dot.x + pointerDx, prevY |-> dot.y]
     IN calc' = [apply |-> "opacity", phase |-> phase,
                 drawn |-> UpdateDot(dot, <<point>>, mouse, t).drawn]
  /\ UNCHANGED <<componentVars, disk, generator, setup>>

\* An image with cells of brightness exactly 150 (twice), 150.33 and 255,
\* and the accentProbability values (units of 1/FX) generation is applied
\* with: never, the default 0.2, always, and above 1.
AccentImage ==
  [width |-> 4, height |-> 1,
   data |-> << <<150, 150, 150>>, <<150, 150, 151>>, <<149, 150, 151>>,
               <<255, 255, 255>> >>]

AccentProbabilitySet == {0, 200, 1000, 2000}

\* The grid loops of the effect (atMount) or of the resize callback over
\* AccentImage on a 40 x 10 surface, one cell of 10 px per image pixel.
CalcAccent(accentProbability, seed, atMount) ==
  /\ calc = NoCalc
  /\ LET config == [Props EXCEPT !.halftoneSize = 1000, !.contrast = 1000,
                                 !.accentProbability = accentProbability]
     IN calc' = [apply |-> "accent", accentProbability |-> accentProbability,
                 atMount |-> atMount,
                 dots |-> GenerateDotsIn(AccentImage, config, 40, 10, seed, atMount)]
  /\ UNCHANGED <<componentVars, disk, generator, setup>>

RECURSIVE LoopVisits(_, _, _)
\* The iterations "for (v = 0; v < extent; v += cell)" makes from v on.
LoopVisits(v, extent, cell) ==
  IF v < extent THEN 1 + LoopVisits(v + cell, extent, cell) ELSE 0

\* halftoneSize values (units of 1/FX), image sizes and surface sizes
\* (pixels) the grid is computed for.
HalftoneSet == {1, 700, 1000, 1500, 10000}
ImageSizeSet == {<<100, 100>>, <<3, 1>>, <<4, 1>>}
SurfaceSet == {<<200, 100>>, <<100, 200>>, <<120, 40>>, <<126, 40>>, <<25, 9>>}

\* The cell size and the cells the two grid loops visit.
CalcGrid(halftoneSize, imageSize, surface) ==
  /\ calc = NoCalc
  /\ LET cell == CellSize(halftoneSize, imageSize[1], imageSize[2],
                          surface[1], surface[2])
     IN calc' = [apply |-> "grid", halftoneSize |-> halftoneSize,
                 imageSize |-> imageSize, surface |-> surface, cell |-> cell,
                 cols |-> GridCount(surface[1], cell),
                 rows |-> GridCount(surface[2], cell),
                 visited |-> LoopVisits(0, surface[2] * PX, cell)
                               * LoopVisits(0, surface[1] * PX, cell)]
  /\ UNCHANGED <<componentVars, disk, generator, setup>>

\* halftoneSize values as <<numerator, denominator>>: 0, -1, -500, the
\* default 0.0001 of the generated page, 1 and 3.
HalftoneRatioSet ==
  {<<0, 1>>, <<-1, 1>>, <<-500, 1>>, <<1, 10000>>, <<1, 1>>, <<3, 1>>}

\* The two grid loops for a halftoneSize given as a ratio: the cell size and
\* the number of times the loop body runs.
CalcLoop(halftoneSize, imageSize, surface) ==
  /\ calc = NoCalc
  /\ LET cell == CellSizeRatio(halftoneSize[1], halftoneSize[2], imageSize[1],
                               imageSize[2], surface[1], surface[2])
     IN calc' = [apply |-> "loop", halftoneSize |-> halftoneSize,
                 imageSize |-> imageSize, surface |-> surface, cell |-> cell,
                 visited |-> LoopVisits(0, surface[2] * PX, cell)
                               * LoopVisits(0, surface[1] * PX, cell)]
  /\ UNCHANGED <<componentVars, disk, generator, setup>>

\* The calculations specification: one of the pure functions of the
\* component applied to inputs of its own.
InitCalc ==
  /\ Constructed
  /\ ToolsUnused
  /\ limits = [effects |-> 0, ms |-> 0]
  /\ movesLeft = 0
  /\ resizesLeft = 0

NextCalc ==
  \/ \E shiftX \in {0, 300}, dx \in OffsetSet, dy \in OffsetSet,
        strength \in StrengthSet, t \in TimeSet :
       CalcTrail(shiftX, dx, dy, strength, t)
  \/ \E contrast \in ContrastSet, p \in ChannelSet : CalcContrast(contrast, p)
  \/ \E scene \in SceneSet, seed \in SeedSet, atMount \in BOOLEAN :
       CalcGenerate(scene, seed, atMount)
  \/ \E accentProbability \in AccentProbabilitySet, seed \in SeedSet,
        atMount \in BOOLEAN :
       CalcAccent(accentProbability, seed, atMount)
  \/ \E phase \in PhaseSet, dx \in OffsetSet, dy \in {0, 2500},
        pointerDx \in PointerOffsetSet, t \in TimeSet :
       CalcOpacity(phase, dx, dy, pointerDx, t)
  \/ \E halftoneSize \in HalftoneRatioSet, imageSize \in ImageSizeSet,
        surface \in SurfaceSet :
       CalcLoop(halftoneSize, imageSize, surface)
  \/ \E halftoneSize \in HalftoneSet, imageSize \in ImageSizeSet,
        surface \in SurfaceSet :
       CalcGrid(halftoneSize, imageSize, surface)

SpecCalc == InitCalc /\ [][NextCalc]_vars

\* ------------------------------------------------ the generator and setup.sh

\* How many runs of the generator and of setup.sh are followed.
MaxGenerations == 2
MaxSetups == 2

\* What resume.yaml may hold: the example's content, a complete resume of the
\* user's, text that is no YAML, YAML without "personal", and a resume whose
\* fonts.sans is a number.
ResumeSet == {"complete", "custom", "malformed", "noPersonal", "fontNumber"}

\* The working directories the tools start in: with or without resume.yaml,
\* resume.example.yaml and the template, before or after an earlier
\* generation.
DiskSet ==
  {[ClonedDisk EXCEPT !.resume = r, !.example = e, !.template = t,
                      !.appDir = old, !.page = IF old THEN "old page" ELSE "absent",
                      !.layout = IF old THEN "old layout" ELSE "absent",
                      !.css = IF old THEN "old css" ELSE "absent"] :
     r \in ResumeSet \cup {"absent"}, e \in {"absent", "complete"},
     t \in BOOLEAN, old \in BOOLEAN}

\* An fs.existsSync(resumeYamlPath) that finds the file wherever it looks.
ResumeFoundAlways(d) == TRUE

\* fs.existsSync(resumeYamlPath)
ResumeFound(d) == d.resume # "absent"

\* yaml.load(resumeYaml): the resume, or "throws".
Parse(text) == IF text = "malformed" THEN "throws" ELSE text

\* generatePage(resume): reads personal.name and personal.links.
GeneratePage(resume) ==
  CASE resume = "complete" -> "page of complete"
    [] resume = "custom" -> "page of custom"
    [] resume = "fontNumber" -> "page of fontNumber"
    [] OTHER -> "throws"

\* generateLayout(resume): calls replace on fonts.sans.
GenerateLayout(resume) ==
  CASE resume = "complete" -> "layout of complete"
    [] resume = "custom" -> "layout of custom"
    [] OTHER -> "throws"

\* generateGlobalsCss(resume): every field it reads has a default.
GenerateGlobalsCss(resume) ==
  CASE resume = "complete" -> "css of complete"
    [] resume = "custom" -> "css of custom"
    [] resume = "fontNumber" -> "css of fontNumber"
    [] resume = "noPersonal" -> "css of noPersonal"
    [] OTHER -> "throws"

\* The catch block of main, or its first check: process.exit(1).
Exit1(cause) ==
  [generator EXCEPT !.pc = "exited", !.status = 1, !.cause = cause]

\* main up to the try block: the paths and the check for resume.yaml.
GenStart ==
  /\ generator.pc \in {"idle", "exited"}
  /\ generator.runs < MaxGenerations
  /\ LET started == [NotRunning EXCEPT !.runs = generator.runs + 1, !.before = Generated(disk)]
     IN generator' = IF ResumeFound(disk)
                     THEN [started EXCEPT !.pc = "read"]
                     ELSE [started EXCEPT !.pc = "exited", !.status = 1,
                                          !.cause = "missing"]
  /\ UNCHANGED <<componentVars, calc, disk, setup>>

\* fs.readFileSync and yaml.load
GenRead ==
  /\ generator.pc = "read"
  /\ generator' =
       IF disk.resume = "absent" THEN Exit1("read")
       ELSE IF Parse(disk.resume) = "throws" THEN Exit1("parse")
       ELSE [generator EXCEPT !.pc = "mkdir", !.resume = Parse(disk.resume)]
  /\ UNCHANGED <<componentVars, calc, disk, setup>>

\* The app directory is created if it is not there (ok: mkdirSync succeeds).
GenMkdir(ok) ==
  /\ generator.pc = "mkdir"
  /\ IF disk.appDir
     THEN /\ generator' = [generator EXCEPT !.pc = "generate"]
          /\ disk' = disk
     ELSE IF ok
     THEN /\ generator' = [generator EXCEPT !.pc = "generate"]
          /\ disk' = [disk EXCEPT !.appDir = TRUE]
     ELSE /\ generator' = Exit1("mkdir")
          /\ disk' = disk
  /\ UNCHANGED <<componentVars, calc, setup>>

\* GenGenerate writing each content as soon as it is generated.
GenGenerateWritingEarly ==
  /\ generator.pc = "generate"
  /\ LET page == GeneratePage(generator.resume)
         layout == GenerateLayout(generator.resume)
         css == GenerateGlobalsCss(generator.resume)
     IN IF page = "throws"
        THEN generator' = Exit1("generatePage") /\ disk' = disk
        ELSE IF layout = "throws"
        THEN /\ generator' = Exit1("generateLayout")
             /\ disk' = [disk EXCEPT !.page = page]
        ELSE IF css = "throws"
        THEN /\ generator' = Exit1("generateGlobalsCss")
             /\ disk' = [disk EXCEPT !.page = page, !.layout = layout]
        ELSE /\ generator' = [generator EXCEPT
                                !.pc = "writePage",
                                !.contents = [page |-> page, layout |-> layout,
                                              css |-> css]]
             /\ disk' = disk
  /\ UNCHANGED <<componentVars, calc, setup>>

\* The three contents are generated, page, layout and css in this order.
GenGenerate ==
  /\ generator.pc = "generate"
  /\ LET page == GeneratePage(generator.resume)
         layout == GenerateLayout(generator.resume)
         css == GenerateGlobalsCss(generator.resume)
     IN generator' =
          IF page = "throws" THEN Exit1("generatePage")
          ELSE IF layout = "throws" THEN Exit1("generateLayout")
          ELSE IF css = "throws" THEN Exit1("generateGlobalsCss")
          ELSE [generator EXCEPT
                  !.pc = "writePage",
                  !.contents = [page |-> page, layout |-> layout, css |-> css]]
  /\ disk' = disk
  /\ UNCHANGED <<componentVars, calc, setup>>

\* The three fs.writeFileSync calls, one per step (ok: the call succeeds).
GenWrite(ok) ==
  /\ generator.pc \in {"writePage", "writeLayout", "writeCss"}
  /\ IF ~ok
     THEN generator' = Exit1("write") /\ disk' = disk
     ELSE CASE generator.pc = "writePage" ->
                 /\ disk' = [disk EXCEPT !.page = generator.contents.page]
                 /\ generator' = [generator EXCEPT !.pc = "writeLayout"]
            [] generator.pc = "writeLayout" ->
                 /\ disk' = [disk EXCEPT !.layout = generator.contents.layout]
                 /\ generator' = [generator EXCEPT !.pc = "writeCss"]
            [] generator.pc = "writeCss" ->
                 /\ disk' = [disk EXCEPT !.css = generator.contents.css]
                 /\ generator' = [generator EXCEPT !.pc = "exited", !.status = 0]
  /\ UNCHANGED <<componentVars, calc, setup>>

\* A test of setup.sh that does not look for resume.yaml.
ShouldCopyResumeAlways(d) == d.example # "absent"

\* [ ! -f "resume.yaml" ] && [ -f "resume.example.yaml" ]
ShouldCopyResume(d) == d.resume = "absent" /\ d.example # "absent"

\* One run of setup.sh under set -e (mkdirOk: the mkdir -p calls succeed;
\* copyOk: the cp of the example succeeds).
Setup(mkdirOk, copyOk) ==
  /\ setup.runs < MaxSetups
  /\ IF ~mkdirOk
     THEN /\ setup' = [runs |-> setup.runs + 1, status |-> 1]
          /\ disk' = disk
     ELSE LET made == [disk EXCEPT !.components =
                         IF disk.template THEN "template"
                         ELSE IF disk.components = "absent" THEN "empty"
                         ELSE disk.components]
          IN IF ShouldCopyResume(made)
             THEN IF copyOk
                  THEN /\ disk' = [made EXCEPT !.resume = made.example]
                       /\ setup' = [runs |-> setup.runs + 1, status |-> 0]
                  ELSE /\ disk' = made
                       /\ setup' = [runs |-> setup.runs + 1, status |-> 1]
             ELSE /\ disk' = made
                  /\ setup' = [runs |-> setup.runs + 1, status |-> 0]
  /\ UNCHANGED <<componentVars, calc, generator>>

\* The user saves resume.yaml with a content of their own, or removes it.
UserEdits(content) ==
  /\ disk.resume # content
  /\ disk' = [disk EXCEPT !.resume = content]
  /\ UNCHANGED <<componentVars, calc, generator, setup>>

\* The tools specification: the generator, setup.sh and the user's editor
\* on one working directory.
InitTools ==
  /\ Constructed
  /\ limits = [effects |-> 0, ms |-> 0]
  /\ movesLeft = 0
  /\ resizesLeft = 0
  /\ disk \in DiskSet
  /\ generator = NotRunning
  /\ setup = NotSetUp

NextTools ==
  \/ GenStart
  \/ GenRead
  \/ \E ok \in BOOLEAN : GenMkdir(ok)
  \/ GenGenerate
  \/ \E ok \in BOOLEAN : GenWrite(ok)
  \/ \E mkdirOk \in BOOLEAN, copyOk \in BOOLEAN : Setup(mkdirOk, copyOk)
  \/ \E content \in ResumeSet \cup {"absent"} : UserEdits(content)

SpecTools == InitTools /\ [][NextTools]_vars

\* ---------------------------------------------------------------- properties

\* The pointer position is at x > 0 and the dot of index i of the frame's run
\* was, when the frame measured it, nearer than 1.3 * mouseRadius (the
\* largest irregular radius) to the pointer.
PointerNear(i) ==
  /\ mouseRef.x > 0
  /\ LET dot == closures[frame.run].dots[i]
         dx == mouseRef.x - (dot.x - dot.vx)
         dy == mouseRef.y - (dot.y - dot.vy)
         far == (13 * Props.mouseRadius * PX) \div 10
     IN dx * dx + dy * dy < far * far

\* C1: in every frame, no trail entry whose age (frame time minus entry
\* timestamp) is strictly greater than 150 ms takes part in the force
\* accumulation.  The code does not keep this: a frame only empties the trail
\* after 100 ms without an event and never filters it by age.
C1_NoStaleEntryInFrame ==
  (frame.run # 0 /\ frame.drawn # <<>>) =>
    \A i \in 1..Len(frame.trail) : now - frame.trail[i].timestamp <= TrailMaxAge

C3_ResizeRegenerates ==
  [][(/\ resizesLeft' = resizesLeft - 1
      /\ observing # 0
      /\ container'[1] > 0
      /\ container'[2] > 0
      /\ (Abs(container'[1] - lastWidth) >= 6 \/ Abs(container'[2] - lastHeight) >= 6))
     => (/\ dotsRef'.alias = 0
         /\ dotsRef'.arr # <<>>
         /\ lastWidth' = container'[1]
         /\ lastHeight' = container'[2]
         /\ \A i \in 1..Len(dotsRef'.arr) :
              LET dot == dotsRef'.arr[i]
              IN /\ dot.x = dot.baseX
                 /\ dot.y = dot.baseY
                 /\ dot.vx = 0
                 /\ dot.vy = 0)]_vars

\* C3 witness: the component, mounted at 120 px, after a notification of
\* 126 px: a new array in dotsRef, every dot of it at rest.
C3_RegeneratedAtRest ==
  /\ observing # 0
  /\ container = <<126, 40>>
  /\ lastWidth = 126
  /\ dotsRef.alias = 0
  /\ dotsRef.arr # <<>>
  /\ \A i \in 1..Len(dotsRef.arr) :
       /\ dotsRef.arr[i].x = dotsRef.arr[i].baseX
       /\ dotsRef.arr[i].y = dotsRef.arr[i].baseY
       /\ dotsRef.arr[i].vx = 0
       /\ dotsRef.arr[i].vy = 0

\* C4: after a qualifying resize every later frame updates and draws exactly
\* the regenerated particles (those of dotsRef) over the new surface
\* dimensions.  The code does not keep this: animate iterates the array and
\* fills the rectangle its effect run captured at mount.
C4_FramesDrawRegenerated ==
  (frame.run # 0 /\ frame.run = active) =>
    /\ frame.width = lastWidth
    /\ frame.height = lastHeight
    /\ Len(frame.drawn) = Len(DotsRefCurrent)
    /\ \A i \in 1..Len(frame.drawn) :
         /\ frame.drawn[i].x = DotsRefCurrent[i].x
         /\ frame.drawn[i].y = DotsRefCurrent[i].y
         /\ frame.drawn[i].isAccent = DotsRefCurrent[i].isAccent

\* C5: a resize notification whose width and height are each less than 5 px
\* from the last accepted size regenerates nothing: the particle set, every
\* particle's position, velocity and twinkle phase, and the canvas
\* dimensions are as before it.
C5_SmallResizeIgnored ==
  [][(/\ resizesLeft' = resizesLeft - 1
      /\ observing # 0
      /\ Abs(container'[1] - lastWidth) < 5
      /\ Abs(container'[2] - lastHeight) < 5)
     => UNCHANGED <<dotsRef, closures, canvas, lastWidth, lastHeight>>]_vars

\* C5 witness: the component, mounted at 120 x 40, after a notification of
\* 124 x 44: the accepted size, the canvas and the dots are those of mount.
C5_SmallResizeSeen ==
  /\ observing # 0
  /\ container = <<124, 44>>
  /\ lastWidth = 120
  /\ lastHeight = 40
  /\ canvas = <<120 * Dpr, 40 * Dpr>>
  /\ dotsRef.alias = active
  /\ DotsRefCurrent # <<>>

\* C6: teardown cancels the pending frame request and detaches the three
\* listeners and the resize observer; after it no frame callback of that
\* mount runs again, and no later pointer or resize event changes the trail,
\* the pointer state or the particle set.
C6_TeardownStopsEverything ==
  /\ [](active = 0 => (rafQueue = {} /\ listening = {} /\ observing = 0))
  /\ [](frame.run # 0 => frame.run = active)
  /\ [][(active = 0 /\ active' = 0)
        => (/\ frame' = NoFrame
            /\ UNCHANGED <<mouseTrailRef, mouseRef, isFirstMoveRef, lastMoveTimeRef,
                           dotsRef, closures, lastWidth, lastHeight>>)]_vars

\* C6 witness: the component after teardown, its request cancelled, when a
\* notification of 126 px (which a connected observer accepts) has arrived
\* and the accepted width is still the 120 px of mount.
C6_TornDownAndDeaf ==
  /\ lifecycle = "unmounted"
  /\ animationFrameRef # 0
  /\ rafQueue = {}
  /\ listening = {}
  /\ observing = 0
  /\ container = <<126, 40>>
  /\ lastWidth = 120

C8_UnavailableNoWork ==
  [][(/\ effects' = effects + 1
      /\ ~(found'.canvas /\ found'.ctx /\ found'.container /\ found'.image))
     => (/\ frame' = NoFrame
         /\ active' = 0
         /\ UNCHANGED <<dotsRef, closures, rafQueue, animationFrameRef, listening,
                        observing, canvas, lastWidth, lastHeight,
                        mouseTrailRef>>)]_vars

\* C8 witness: the component after its first effect run found no image:
\* no dots, no request, no listener, no observer.
C8_MountedWithoutImage ==
  /\ effects = 1
  /\ lifecycle = "idle"
  /\ ~found.image
  /\ found.canvas /\ found.ctx /\ found.container
  /\ closures = <<>>
  /\ dotsRef.arr = <<>>
  /\ rafQueue = {}
  /\ animationFrameRef = 0
  /\ listening = {}
  /\ observing = 0

\* C9: the first pointer-move after load sets both the current and the
\* previous pointer position to the event position and appends no trail
\* point; every later pointer-move appends at least one trail point.
C9_FirstMoveSeeds ==
  [][(movesLeft' = movesLeft - 1)
     => IF isFirstMoveRef
        THEN /\ mouseRef'.prevX = mouseRef'.x
             /\ mouseRef'.prevY = mouseRef'.y
             /\ \E p \in PointSet : mouseRef'.x = p[1] * PX /\ mouseRef'.y = p[2] * PX
             /\ mouseTrailRef' = mouseTrailRef
             /\ ~isFirstMoveRef'
        ELSE LET kept == Cardinality({i \in 1..Len(mouseTrailRef) :
                                        now - mouseTrailRef[i].timestamp < 150})
             IN /\ Len(mouseTrailRef') >= kept + 1
                /\ mouseTrailRef'[Len(mouseTrailRef')].timestamp = now]_vars

\* C9 witness: after a later pointer-move that reported the position the
\* pointer already had: the trail holds the point it appended.
C9_LaterMoveInPlace ==
  /\ ~isFirstMoveRef
  /\ mouseRef.prevX = mouseRef.x
  /\ mouseRef.prevY = mouseRef.y
  /\ mouseTrailRef # <<>>
  /\ mouseTrailRef[Len(mouseTrailRef)].timestamp = events.move
  /\ mouseTrailRef[Len(mouseTrailRef)].x = mouseRef.x

\* C10: a non-first pointer-move with displacement length speed appends
\* exactly max(1, ceil(speed / 10)) trail points, each with strength
\* min(speed / 10, 1); a jump from (0, 0) to (100, 0) appends 10 points of
\* strength 1.
C10_PointsPerMove ==
  [][(movesLeft' = movesLeft - 1 /\ ~isFirstMoveRef)
     => LET dx == mouseRef'.x - mouseRef.x
            dy == mouseRef'.y - mouseRef.y
            d2 == dx * dx + dy * dy
            ten == 10 * PX
            kept == Cardinality({i \in 1..Len(mouseTrailRef) :
                                   now - mouseTrailRef[i].timestamp < 150})
            n == Len(mouseTrailRef') - kept
        IN /\ n >= 1
           /\ (n * ten) * (n * ten) >= d2
           /\ n > 1 => ((n - 1) * ten) * ((n - 1) * ten) < d2
           /\ \A i \in (kept + 1)..Len(mouseTrailRef') :
                LET strength == mouseTrailRef'[i].strength
                    tenths == (strength * ten) \div FX
                IN /\ mouseTrailRef'[i].timestamp = now
                   /\ IF d2 >= ten * ten
                      THEN strength = FX
                      ELSE tenths * tenths <= d2 /\ d2 < (tenths + 1) * (tenths + 1)
           /\ (mouseRef.x = 0 /\ mouseRef.y = 0
                 /\ mouseRef'.x = 100 * PX /\ mouseRef'.y = 0)
              => (n = 10 /\ \A i \in (kept + 1)..Len(mouseTrailRef') :
                               mouseTrailRef'[i].strength = FX)]_vars

\* C10 witness: after the jump from (0, 0) to (100, 0): the trail ends with
\* the 10 points of that event, 10 px apart, each of strength 1.
C10_JumpAppendsTen ==
  /\ mouseRef = [x |-> 100 * PX, y |-> 0, prevX |-> 0, prevY |-> 0]
  /\ Len(mouseTrailRef) >= 10
  /\ \A k \in 1..10 :
       LET point == mouseTrailRef[Len(mouseTrailRef) - 10 + k]
       IN /\ point.strength = FX
          /\ point.timestamp = events.move
          /\ point.x = (k - 1) * 10 * PX
          /\ point.y = 0
  /\ (Len(mouseTrailRef) > 10
        => mouseTrailRef[Len(mouseTrailRef) - 10].timestamp < events.move)

\* C11: for a trail point at distance 0 from a particle, and at any distance
\* up to 0.1 px, the frame does not divide by that distance and adds no
\* force from the point, while the point's falloff still counts toward the
\* particle's maximum falloff; at distance 0 the falloff is exactly 1.
C11_NoForceWithinTenthOfPixel ==
  calc.apply = "trail" =>
    LET dx == calc.point.x - calc.dot.x
        dy == calc.point.y - calc.dot.y
        d2 == dx * dx + dy * dy
        tenth == PX \div 10
    IN d2 <= tenth * tenth =>
         /\ ~calc.effect.divided
         /\ calc.updated.drawn.forceX = 0
         /\ calc.updated.drawn.forceY = 0
         /\ calc.updated.drawn.maxDistanceFactor > 0
         /\ calc.updated.drawn.maxDistanceFactor = calc.effect.falloff
         /\ calc.updated.drawn.opacity < FX
         /\ d2 = 0 => calc.updated.drawn.maxDistanceFactor = FX
         /\ calc.dot.x = calc.dot.baseX =>
              (calc.updated.dot.vx = 0 /\ calc.updated.dot.vy = 0)

\* C11 witness: a trail point exactly on a resting dot: falloff 1, no force,
\* the dot stays where it is.
C11_PointOnDot ==
  /\ calc.apply = "trail"
  /\ calc.point.x = calc.dot.x
  /\ calc.point.y = calc.dot.y
  /\ calc.dot.x = calc.dot.baseX
  /\ calc.updated.drawn.maxDistanceFactor = FX
  /\ calc.updated.drawn.forceX = 0
  /\ calc.updated.drawn.forceY = 0
  /\ calc.updated.dot.x = calc.dot.x

\* C12: generation (at mount and on resize) creates no particle for a cell
\* whose diameter (brightness / 255 * cellSize * 0.9) is at most 0.5, and
\* exactly one particle, at the cell's centre, for every cell whose diameter
\* is greater than 0.5.
C12_OneDotPerCellAboveHalf ==
  calc.apply = "generate" =>
    LET scene == calc.scene
        cell == CellSize(scene.config.halftoneSize, scene.image.width,
                         scene.image.height, scene.W, scene.H)
        cols == GridCount(scene.W, cell)
        rows == GridCount(scene.H, cell)
        Sum(c, r) == SampleSumIn(scene.image, scene.config.contrast,
                                 c * cell, r * cell, scene.W, scene.H, calc.atMount)
        \* diameter > 1/2, the diameter being (sum / 3 / 255) * (cell / PX) * 9 / 10
        Above(c, r) == 2 * 9 * Sum(c, r) * cell > 3 * 255 * 10 * PX
        At(c, r) == {i \in 1..Len(calc.dots) :
                       /\ calc.dots[i].baseX = c * cell + cell \div 2
                       /\ calc.dots[i].baseY = r * cell + cell \div 2}
    IN /\ \A c \in 0..(cols - 1), r \in 0..(rows - 1) :
            Cardinality(At(c, r)) = IF Above(c, r) THEN 1 ELSE 0
       /\ Len(calc.dots) =
            Cardinality({cr \in (0..(cols - 1)) \X (0..(rows - 1)) : Above(cr[1], cr[2])})

\* C12 witness: the 20 x 5 surface, cells of 5 px: no dot for the first cell
\* (diameter exactly 0.5) nor the third (black), one for the second
\* (diameter 0.506) and one for the fourth.
C12_HalfExcluded ==
  /\ calc.apply = "generate"
  /\ calc.scene.W = 20
  /\ Len(calc.dots) = 2
  /\ calc.dots[1].baseX = 750
  /\ calc.dots[1].baseSize = 50
  /\ calc.dots[2].baseX = 1750

\* C13: for every contrast multiplier c > 0 and every channel value p in
\* 0..255, the contrast transform clamp(0, 255, ((p / 255 - 0.5) * c + 0.5)
\* * 255) lies in [0, 255]: results below 0 become 0, results above 255
\* become 255, none wraps.
C13_ContrastClamped ==
  calc.apply = "contrast" =>
    \* ((p / 255 - 0.5) * c + 0.5) * 255 = unclamped / (2 * FX)
    LET unclamped == (2 * calc.p - 255) * calc.contrast + 255 * FX
    IN /\ calc.contrast > 0
       /\ calc.out \in 0..255
       /\ unclamped <= 0 => calc.out = 0
       /\ unclamped >= 255 * 2 * FX => calc.out = 255
       /\ (0 < unclamped /\ unclamped < 255 * 2 * FX) =>
            \* the nearest integer
            /\ 2 * (2 * FX * calc.out) - 2 * unclamped <= 2 * FX
            /\ 2 * unclamped - 2 * (2 * FX * calc.out) <= 2 * FX

\* C13 witness: contrast 100 on channel value 0: the result, far below 0,
\* is stored as 0.
C13_NegativeBecomesZero ==
  /\ calc.apply = "contrast"
  /\ calc.contrast = 100 * FX
  /\ calc.p = 0
  /\ calc.out = 0

\* C14: the cell size is max(2, halftoneSize * fillScale) with fillScale =
\* max(surfaceWidth / imageWidth, surfaceHeight / imageHeight), and the grid
\* visits ceil(surfaceWidth / cell) * ceil(surfaceHeight / cell) cells; an
\* image of 100 x 100 in a container of 200 x 100 with halftoneSize 10 gives
\* a cell size of 20 and a grid of 10 x 5 cells.
C14_CellSizeAndGrid ==
  calc.apply = "grid" =>
    LET iw == calc.imageSize[1]
        ih == calc.imageSize[2]
        W == calc.surface[1]
        H == calc.surface[2]
        \* halftoneSize * fillScale = num / den pixels (in coordinate units)
        byWidth == W * ih >= H * iw
        num == IF byWidth THEN calc.halftoneSize * W * PX
                          ELSE calc.halftoneSize * H * PX
        den == IF byWidth THEN FX * iw ELSE FX * ih
    IN /\ IF num < 2 * PX * den
          THEN calc.cell = 2 * PX
          ELSE calc.cell * den <= num /\ num < (calc.cell + 1) * den
       /\ (calc.cols - 1) * calc.cell < W * PX
       /\ W * PX <= calc.cols * calc.cell
       /\ (calc.rows - 1) * calc.cell < H * PX
       /\ H * PX <= calc.rows * calc.cell
       /\ calc.visited = calc.cols * calc.rows
       /\ (calc.imageSize = <<100, 100>> /\ calc.surface = <<200, 100>>
             /\ calc.halftoneSize = 10 * FX)
          => (calc.cell = 20 * PX /\ calc.cols = 10 /\ calc.rows = 5)

\* C14 witness: the image of 100 x 100 in the container of 200 x 100 with
\* halftoneSize 10: cells of 20 px, 50 of them visited.
C14_TenByFive ==
  /\ calc.apply = "grid"
  /\ calc.imageSize = <<100, 100>>
  /\ calc.surface = <<200, 100>>
  /\ calc.halftoneSize = 10 * FX
  /\ calc.cell = 20 * PX
  /\ calc.cols = 10
  /\ calc.rows = 5
  /\ calc.visited = 50

\* C15: particles are never generated or regenerated against a container
\* whose width or height is zero: the effect and the resize callback check
\* the dimensions first and otherwise leave the canvas and the particle set
\* untouched, raising no failure.  The code does not keep this at mount: the
\* effect sizes the canvas to the empty container and getImageData throws.
C15_ZeroContainerGuarded ==
  [][(\/ (effects' = effects + 1 /\ (container[1] = 0 \/ container[2] = 0))
      \/ (resizesLeft' = resizesLeft - 1 /\ (container'[1] = 0 \/ container'[2] = 0)))
     => (/\ canvas' = canvas
         /\ dotsRef' = dotsRef
         /\ closures' = closures
         /\ lifecycle' # "failed")]_vars

\* C16: event callbacks and frames never interleave partially: every
\* pointer-position update and every trail point written by a pointer-move
\* that completed before a frame callback starts is seen by that frame, so
\* the next frame less than 100 ms after a move accumulates force from all
\* the trail points that move appended.
C16_FrameSeesCompletedMove ==
  /\ [][(frame'.run # 0 /\ now - lastMoveTimeRef < 100)
        => (frame'.trail = mouseTrailRef /\ frame'.mouse = mouseRef)]_vars
  /\ [](frame.run # 0 => frame.mouse = mouseRef)
  /\ []((/\ frame.run # 0
         /\ events.move # 0
         /\ now - events.move < 100
         /\ (mouseRef.x # mouseRef.prevX \/ mouseRef.y # mouseRef.prevY))
        => LET dx == mouseRef.x - mouseRef.prevX
               dy == mouseRef.y - mouseRef.prevY
               seen == Cardinality({i \in 1..Len(frame.trail) :
                                      frame.trail[i].timestamp = events.move})
           IN /\ seen >= 1
              /\ (seen * 10 * PX) * (seen * 10 * PX) >= dx * dx + dy * dy
              /\ frame.trail[Len(frame.trail)].timestamp = events.move)

\* C16 witness: a frame 75 ms after the move from (100, 0) to (103, 4): its
\* trail holds the point of that move and a particle receives force from it.
C16_FrameAfterMove ==
  /\ frame.run # 0
  /\ now - events.move = 75
  /\ frame.mouse = [x |-> 103 * PX, y |-> 4 * PX, prevX |-> 100 * PX, prevY |-> 0]
  /\ frame.trail # <<>>
  /\ frame.trail[Len(frame.trail)].timestamp = events.move
  /\ frame.trail[Len(frame.trail)].x = 100 * PX
  /\ \E i \in 1..Len(frame.drawn) : frame.drawn[i].forceY # 0

\* C17: while the component is mounted (after a successful mount and before
\* teardown) every frame callback ends by scheduling the next one, so a frame
\* request is always pending between frames and frames keep recurring until
\* teardown.
C17_FramesRecurWhileMounted ==
  /\ [](active # 0
        => \E r \in rafQueue : r.run = active /\ r.id = animationFrameRef)
  /\ [][(frame'.run # 0 /\ active' # 0)
        => (/\ frame'.run = active'
            /\ \E r \in rafQueue' : r.run = active' /\ r.id = animationFrameRef'
            /\ frameRan')]_vars
  /\ [][FrameCallbackRuns
        => (frame'.run # 0 /\ \E req \in rafQueue : req.run = frame'.run)]_vars
  /\ ((active # 0 /\ ~frameRan) ~> (frame.run # 0 \/ active = 0))

\* C17 witness: the callback requested by the first mount has run, 75 ms
\* after the mount, and its own request is pending.
C17_CallbackRanAndRequested ==
  /\ effects = 1
  /\ active = 1
  /\ now = StartTime + 75
  /\ frame.run = 1
  /\ frameRan
  /\ rafQueue = {[id |-> animationFrameRef, run |-> 1]}

\* C18: a qualifying resize re-runs all of the initialization steps, the
\* contrast transform included: for the same image, configuration and
\* dimensions, the regeneration on resize retains the same cells with the same
\* brightness and base size as a fresh mount at those dimensions would.
C18_ResizeAsFreshMount ==
  (observing # 0 /\ dotsRef.alias = 0)
    => \A seed \in SeedSet :
         LET fresh == GenerateDots(lastWidth, lastHeight, seed, TRUE)
             regenerated == dotsRef.arr
         IN /\ Len(regenerated) = Len(fresh)
            /\ \A i \in 1..Len(fresh) :
                 /\ regenerated[i].baseX = fresh[i].baseX
                 /\ regenerated[i].baseY = fresh[i].baseY
                 /\ regenerated[i].brightness = fresh[i].brightness
                 /\ regenerated[i].baseSize = fresh[i].baseSize

\* C19: for each grid cell, the brightness that decides the particle's
\* diameter is the mean of R, G and B of the buffer pixel at the cell's centre
\* (cell origin plus half the cell size, scaled by the device pixel ratio),
\* the same point that becomes the particle's rest position.
C19_BrightnessSampledAtCentre ==
  calc.apply = "generate" =>
    LET scene == calc.scene
        AtCentre(dot) == SampleSumIn(scene.image, scene.config.contrast,
                                     dot.baseX, dot.baseY, scene.W, scene.H,
                                     calc.atMount)
    IN \A i \in 1..Len(calc.dots) :
         (calc.dots[i].baseX < scene.W * PX /\ calc.dots[i].baseY < scene.H * PX)
           => calc.dots[i].brightness = (AtCentre(calc.dots[i]) * PX) \div 3

C21_MoveLeavesFreshTrail ==
  [][(movesLeft' = movesLeft - 1 /\ ~isFirstMoveRef)
     => LET pushed == PushedPoints(mouseRef.x, mouseRef.y, mouseRef'.x, mouseRef'.y,
                                   now)
            left == mouseTrailRef'
            older == Len(left) - Len(pushed)
        IN /\ \A i \in 1..Len(left) : now - left[i].timestamp < 150
           /\ older >= 0
           /\ \A i \in 1..Len(pushed) : left[older + i] = pushed[i]
           /\ \A i \in 1..older :
                \E j \in 1..Len(mouseTrailRef) : mouseTrailRef[j] = left[i]
           /\ \A j \in 1..Len(mouseTrailRef) :
                now - mouseTrailRef[j].timestamp < 150
                  => \E i \in 1..older : left[i] = mouseTrailRef[j]]_vars

\* C21 witness: the third move, 175 ms after the second: the second move's
\* entry is gone and the trail holds only the entry of the third.
C21_OldEntryRemoved ==
  /\ movesLeft = 0
  /\ events.move = StartTime + 175
  /\ now = StartTime + 175
  /\ ~frameRan
  /\ Len(mouseTrailRef) = 1
  /\ mouseTrailRef[1].timestamp = now

\* C22: every particle whose accent flag is set has brightness strictly
\* greater than 150, both after mount-time generation and after every resize
\* regeneration, for every value of accentProbability.
C22_AccentOnlyAbove150 ==
  calc.apply \in {"accent", "generate"}
    => \A i \in 1..Len(calc.dots) :
         calc.dots[i].isAccent => calc.dots[i].brightness > 150 * PX

\* C22 witness: a resize regeneration with accentProbability 1: the two
\* cells of brightness exactly 150 are no accents, the cells of brightness
\* 150.33 and 255 are.
C22_AccentAtFullProbability ==
  /\ calc.apply = "accent"
  /\ ~calc.atMount
  /\ calc.accentProbability = 1000
  /\ Len(calc.dots) = 4
  /\ calc.dots[1].brightness = 150 * PX /\ ~calc.dots[1].isAccent
  /\ calc.dots[3].brightness = 150 * PX /\ ~calc.dots[3].isAccent
  /\ calc.dots[2].brightness = 15033 /\ calc.dots[2].isAccent
  /\ calc.dots[4].isAccent

\* C23: the resize hysteresis is measured against the last accepted size, not
\* the previous event: after every processed resize event with positive
\* dimensions the stored last width and height differ from the reported size
\* by at most 5 px on each axis, so a sequence of sub-5px resizes regenerates
\* as soon as the drift from the last accepted size exceeds 5 px on either
\* axis.
C23_HysteresisAgainstAccepted ==
  [][(/\ resizesLeft' = resizesLeft - 1
      /\ observing # 0
      /\ container'[1] > 0
      /\ container'[2] > 0)
     => LET drifted == \/ Abs(container'[1] - lastWidth) > 5
                       \/ Abs(container'[2] - lastHeight) > 5
        IN /\ Abs(container'[1] - lastWidth') <= 5
           /\ Abs(container'[2] - lastHeight') <= 5
           /\ drifted => (/\ lastWidth' = container'[1]
                          /\ lastHeight' = container'[2]
                          /\ dotsRef'.alias = 0
                          /\ canvas' = <<container'[1] * Dpr, container'[2] * Dpr>>)
           /\ ~drifted => UNCHANGED <<lastWidth, lastHeight, dotsRef, canvas>>]_vars

\* C23 witness: mounted at 120 x 40, two notifications later the container
\* is 125 px wide: exactly 5 px from the accepted width, which is still 120.
C23_FivePixelsFromAccepted ==
  /\ observing # 0
  /\ effects = 1
  /\ resizesLeft + 2 = MaxResizes
  /\ container = <<125, 40>>
  /\ lastWidth = 120
  /\ lastHeight = 40
  /\ dotsRef.alias = active

\* C24: at most one frame request is outstanding for a component instance at
\* any time, including when a change of image or configuration tears the
\* effect down and re-runs it: the old loop's pending request is cancelled
\* before the new loop schedules its first frame, so two frame loops never
\* run side by side.
C24_OneFrameLoop ==
  /\ [](Cardinality(rafQueue) <= 1)
  /\ [](\A r \in rafQueue : r.run = active /\ r.id = animationFrameRef)
  /\ [][effects' = effects + 1 => (active = 0 /\ rafQueue = {})]_vars
  /\ [][frame'.run # 0 => frame'.run = active']_vars

\* C24 witness: between the cleanup and the re-run of the effect after a
\* change of props: the request of the old loop (animationFrameRef still
\* holds its id) is no longer pending.
C24_CancelledBeforeRerun ==
  /\ lifecycle = "rerun"
  /\ effects = 1
  /\ animationFrameRef # 0
  /\ active = 0
  /\ rafQueue = {}

\* C25: between regenerations, frames and pointer events never change the
\* number of particles nor any particle's rest position, base size,
\* brightness, accent flag, size multiplier or twinkle speed; a frame changes
\* only a particle's position, velocity and twinkle phase, and the twinkle
\* phase only when its maximum falloff is greater than 0.
C25_FramesKeepParticleIdentity ==
  [][(effects' = effects /\ active' = active /\ resizesLeft' = resizesLeft)
     => /\ dotsRef' = dotsRef
        /\ DOMAIN closures' = DOMAIN closures
        /\ frame'.run = 0 => closures' = closures
        /\ \A g \in DOMAIN closures :
             LET before == closures[g].dots
                 after == closures'[g].dots
             IN /\ Len(after) = Len(before)
                /\ g # frame'.run => after = before
                /\ \A i \in 1..Len(before) :
                     /\ after[i] = [before[i] EXCEPT !.x = after[i].x,
                                                     !.y = after[i].y,
                                                     !.vx = after[i].vx,
                                                     !.vy = after[i].vy,
                                                     !.twinklePhase = after[i].twinklePhase]
                     /\ g = frame'.run =>
                          after[i].twinklePhase =
                            IF frame'.drawn[i].maxDistanceFactor > 0
                            THEN before[i].twinklePhase + before[i].twinkleSpeed
                            ELSE before[i].twinklePhase]_vars

\* C25 witness: a frame after a pointer move: one particle is lit (falloff
\* above 0) and pushed off its rest position, another is not lit.
C25_FrameMovedLitParticle ==
  /\ frame.run # 0
  /\ frame.run = active
  /\ events.move # 0
  /\ \E i \in 1..Len(frame.drawn) :
       /\ frame.drawn[i].maxDistanceFactor > 0
       /\ closures[active].dots[i].x # closures[active].dots[i].baseX
  /\ \E i \in 1..Len(frame.drawn) : frame.drawn[i].maxDistanceFactor = 0

\* C26: in every frame each particle's rendered opacity lies in [0.3, 1]: the
\* maximum falloff is always in [0, 1], and when it is positive the opacity
\* 1 - (1 - twinkleAmount) * maxFalloff, with twinkleAmount between
\* 0.3 * maxFalloff and maxFalloff, never drops below 0.3 nor exceeds 1.
C26_OpacityInRange ==
  /\ calc.apply = "opacity"
       => /\ calc.drawn.maxDistanceFactor \in 0..FX
          /\ calc.drawn.opacity \in 300..FX
          /\ calc.drawn.maxDistanceFactor = 0 => calc.drawn.opacity = FX
  /\ calc.apply = "trail"
       => /\ calc.updated.drawn.maxDistanceFactor \in 0..FX
          /\ calc.updated.drawn.opacity \in 300..FX

\* C26 witness: a trail point on the dot (falloff 1) in the frame where the
\* sine of the twinkle phase is at its minimum: the opacity is 0.3.
C26_DarkestTwinkle ==
  /\ calc.apply = "opacity"
  /\ calc.phase = 4692
  /\ calc.drawn.maxDistanceFactor = FX
  /\ calc.drawn.opacity = 300

\* C27: particle generation terminates for every configuration and finite
\* surface: because the cell size is floored at 2, the grid loops run at most
\* ceil(width / 2) * ceil(height / 2) iterations, including for halftoneSize
\* 0, a negative halftoneSize, or the generator's default 0.0001.
C27_GridLoopsBounded ==
  calc.apply = "loop" =>
    LET W == calc.surface[1]
        H == calc.surface[2]
        most == ((W + 1) \div 2) * ((H + 1) \div 2)
        small == calc.halftoneSize[1] <= 0 \/ calc.halftoneSize = <<1, 10000>>
    IN /\ calc.cell >= 2 * PX
       /\ calc.visited >= 1
       /\ calc.visited <= most
       /\ small => (calc.cell = 2 * PX /\ calc.visited = most)

\* C27 witness: the default halftoneSize 0.0001 on the surface of 25 x 9:
\* cells of 2 px, 13 * 5 iterations.
C27_DefaultHalftoneSize ==
  /\ calc.apply = "loop"
  /\ calc.halftoneSize = <<1, 10000>>
  /\ calc.surface = <<25, 9>>
  /\ calc.cell = 2 * PX
  /\ calc.visited = 65

\* C28: if resume.yaml does not exist in the working directory, the
\* generator's main exits with status 1 without creating the app directory
\* and without writing or modifying page.tsx, layout.tsx or globals.css.
C28_MissingResumeExitsClean ==
  /\ [][(generator'.runs = generator.runs + 1 /\ disk.resume = "absent")
        => (/\ generator'.pc = "exited"
            /\ generator'.status = 1
            /\ generator'.cause = "missing"
            /\ disk' = disk)]_vars
  /\ []((generator.pc = "exited" /\ generator.cause = "missing")
        => (generator.status = 1 /\ Generated(disk) = generator.before))

\* C28 witness: the generator was run in a directory without resume.yaml and
\* without an app directory: it has exited with status 1 and there is still
\* neither.
C28_ExitedWithoutAppDir ==
  /\ generator.pc = "exited"
  /\ generator.cause = "missing"
  /\ generator.status = 1
  /\ disk.resume = "absent"
  /\ ~disk.appDir
  /\ disk.page = "absent"

\* C29: the generator produces all three contents before writing any file: if
\* YAML parsing or any of generatePage, generateLayout, generateGlobalsCss
\* throws (e.g. a required resume field is missing), none of app/page.tsx,
\* app/layout.tsx, app/globals.css is written or modified and the process
\* exits with status 1.
C29_NothingWrittenWhenGenerationThrows ==
  /\ []((/\ generator.pc = "exited"
         /\ generator.cause \in {"parse", "generatePage", "generateLayout",
                                 "generateGlobalsCss"})
        => (/\ generator.status = 1
            /\ disk.page = generator.before.page
            /\ disk.layout = generator.before.layout
            /\ disk.css = generator.before.css))
  /\ [][<<disk.page, disk.layout, disk.css>>' # <<disk.page, disk.layout, disk.css>>
        => (/\ generator.pc \in {"writePage", "writeLayout", "writeCss"}
            /\ generator.contents.page = GeneratePage(generator.resume)
            /\ generator.contents.layout = GenerateLayout(generator.resume)
            /\ generator.contents.css = GenerateGlobalsCss(generator.resume)
            /\ "throws" \notin {generator.contents.page, generator.contents.layout,
                                generator.contents.css})]_vars

\* C29 witness: over an earlier generation, the generator read a resume whose
\* fonts.sans is a number: generatePage succeeded, generateLayout threw, the
\* process exited with status 1 and page.tsx is the old one.
C29_LayoutThrewPageKept ==
  /\ generator.pc = "exited"
  /\ generator.cause = "generateLayout"
  /\ generator.status = 1
  /\ generator.resume = "fontNumber"
  /\ disk.page = "old page"
  /\ disk.layout = "old layout"
  /\ disk.css = "old css"

\* C30: setup.sh copies resume.example.yaml to resume.yaml only when
\* resume.yaml does not yet exist: running setup any number of times never
\* overwrites or modifies an existing resume.yaml.
C30_SetupKeepsResume ==
  [][setup'.runs = setup.runs + 1
     => (/\ disk.resume # "absent" => disk'.resume = disk.resume
         /\ disk'.resume # disk.resume
              => (/\ disk.resume = "absent"
                  /\ disk.example # "absent"
                  /\ disk'.resume = disk.example
                  /\ setup'.status = 0)
         /\ disk'.example = disk.example)]_vars

\* C30 witness: setup.sh has run twice, the example is there, and resume.yaml
\* still holds the user's own resume.
C30_SetupTwiceResumeKept ==
  /\ setup.runs = 2
  /\ setup.status = 0
  /\ disk.example = "complete"
  /\ disk.resume = "custom"
  /\ disk.components = "template"

====
